---------------------------- MODULE Spec2Model ----------------------------
(***************************************************************************)
(* A model of gen, the static site generator (package main).  The run is   *)
(* main(): parseDirectoryContent walks the content tree and fills the      *)
(* global registry `pages`, a loop over the registry resolves the internal *)
(* links of every page into the Backlinks map of the page linked to, and   *)
(* a last loop calls Render on every page.  (The older generator, whose    *)
(* renderDirectoryContents renders each file as the walk meets it, maps    *)
(* paths and names pages with the same code.)                              *)
(*                                                                         *)
(* Go strings are sequences of one-character strings, so that ToLower,     *)
(* Replace, TrimSuffix and Ext are computed as the code computes them.     *)
(***************************************************************************)
EXTENDS Integers, Sequences, FiniteSets, TLC

(***************************************************************************)
(* String literals of the program.                                         *)
(***************************************************************************)
s_content == <<"c", "o", "n", "t", "e", "n", "t">>
s_content_slash == <<"c", "o", "n", "t", "e", "n", "t", "/">>
s_slash_content == <<"/", "c", "o", "n", "t", "e", "n", "t">>
s_public == <<"p", "u", "b", "l", "i", "c">>
s_public_slash == <<"p", "u", "b", "l", "i", "c", "/">>
s_Oliver == <<"O", "l", "i", "v", "e", "r">>
s_index == <<"i", "n", "d", "e", "x">>
s_dot_md == <<".", "m", "d">>
s_dot_html == <<".", "h", "t", "m", "l">>
s_slash_index_html == <<"/", "i", "n", "d", "e", "x", ".", "h", "t", "m", "l">>
s_space == <<" ">>
s_underscore == <<"_">>
s_slash == <<"/">>
s_empty == << >>

(***************************************************************************)
(* The content tree the generator is run on: names of directory entries,   *)
(* and the link destinations written in the files.                         *)
(***************************************************************************)
n_blog == <<"b", "l", "o", "g">>
n_sub == <<"s", "u", "b">>
n_index_md == <<"i", "n", "d", "e", "x", ".", "m", "d">>
n_post_md == <<"p", "o", "s", "t", ".", "m", "d">>
n_A_b_md == <<"A", " ", "b", ".", "m", "d">>
n_a_b_md == <<"a", "_", "b", ".", "m", "d">>
n_readme_txt == <<"r", "e", "a", "d", "m", "e", ".", "t", "x", "t">>
n_a_b_html == <<"a", "_", "b", ".", "h", "t", "m", "l">>
n_index_html == <<"i", "n", "d", "e", "x", ".", "h", "t", "m", "l">>
l_blog == <<"/", "b", "l", "o", "g">>
l_nope == <<"/", "n", "o", "p", "e">>
l_readme == <<"/", "r", "e", "a", "d", "m", "e", ".", "t", "x", "t">>
l_a_b == <<"/", "a", "_", "b", ".", "h", "t", "m", "l">>
l_rel == <<"x", ".", "h", "t", "m", "l">>
l_blog_sub == <<"/", "b", "l", "o", "g", "/", "s", "u", "b">>
l_content_a_b == <<"/", "c", "o", "n", "t", "e", "n", "t", "/", "a", "_", "b", ".", "h", "t", "m", "l">>
l_ext == <<"h", "t", "t", "p", ":", "/", "/", "e">>
l_post == <<"/", "b", "l", "o", "g", "/", "p", "o", "s", "t", ".", "h", "t", "m", "l">>

\* The files a content tree is drawn from: the directories a file lies in
\* (below content/), its name, and the link destinations of its text.
ContentFiles ==
    { [dir |-> <<n_blog>>, name |-> n_index_md, links |-> <<l_readme>>],
      [dir |-> <<n_blog>>, name |-> n_post_md, links |-> <<l_blog, l_nope, l_blog>>],
      [dir |-> << >>, name |-> n_A_b_md, links |-> <<l_a_b, l_blog_sub>>],
      [dir |-> << >>, name |-> n_a_b_md, links |-> <<l_rel, l_post>>],
      [dir |-> << >>, name |-> n_readme_txt, links |-> <<l_blog>>],
      [dir |-> <<s_content>>, name |-> n_a_b_md, links |-> <<l_content_a_b, l_ext>>],
      [dir |-> <<n_blog, n_sub>>, name |-> n_index_md, links |-> <<l_post>>],
      [dir |-> <<n_a_b_html>>, name |-> n_index_html, links |-> <<l_blog>>] }

\* The largest number of files of a content tree.
MaxFiles == 3

(***************************************************************************)
(* package strings, path/filepath                                          *)
(***************************************************************************)
ToLowerChar(c) ==
    CASE c = "A" -> "a" [] c = "B" -> "b" [] c = "C" -> "c" [] c = "D" -> "d"
      [] c = "E" -> "e" [] c = "F" -> "f" [] c = "G" -> "g" [] c = "H" -> "h"
      [] c = "I" -> "i" [] c = "J" -> "j" [] c = "K" -> "k" [] c = "L" -> "l"
      [] c = "M" -> "m" [] c = "N" -> "n" [] c = "O" -> "o" [] c = "P" -> "p"
      [] c = "Q" -> "q" [] c = "R" -> "r" [] c = "S" -> "s" [] c = "T" -> "t"
      [] c = "U" -> "u" [] c = "V" -> "v" [] c = "W" -> "w" [] c = "X" -> "x"
      [] c = "Y" -> "y" [] c = "Z" -> "z" [] OTHER -> c

ToLower(s) == [i \in 1..Len(s) |-> ToLowerChar(s[i])]

\* sub occurs in s at position i.
OccursAt(s, sub, i) ==
    /\ i + Len(sub) - 1 <= Len(s)
    /\ SubSeq(s, i, i + Len(sub) - 1) = sub

\* strings.Index, counted from 1; 0 when sub does not occur.
Index(s, sub) ==
    IF \E i \in 1..Len(s) : OccursAt(s, sub, i)
    THEN CHOOSE i \in 1..Len(s) :
            /\ OccursAt(s, sub, i)
            /\ \A j \in 1..(i - 1) : ~OccursAt(s, sub, j)
    ELSE 0

\* strings.Replace(s, old, new, n): the first n occurrences, all when n < 0.
RECURSIVE Replace(_, _, _, _)
Replace(s, old, new, n) ==
    LET i == Index(s, old) IN
    IF n = 0 \/ i = 0
    THEN s
    ELSE SubSeq(s, 1, i - 1) \o new
           \o Replace(SubSeq(s, i + Len(old), Len(s)), old, new, n - 1)

HasSuffix(s, suffix) ==
    /\ Len(suffix) <= Len(s)
    /\ SubSeq(s, Len(s) - Len(suffix) + 1, Len(s)) = suffix

TrimSuffix(s, suffix) ==
    IF HasSuffix(s, suffix) THEN SubSeq(s, 1, Len(s) - Len(suffix)) ELSE s

\* filepath.Ext of a name without separators: from its last dot on.
Ext(name) ==
    IF \E i \in 1..Len(name) : name[i] = "."
    THEN LET d == CHOOSE i \in 1..Len(name) :
                     /\ name[i] = "."
                     /\ \A j \in (i + 1)..Len(name) : name[j] # "."
         IN SubSeq(name, d, Len(name))
    ELSE s_empty

\* fmt.Sprintf("%s/%s", directory, name)
JoinPath(directory, name) == directory \o s_slash \o name

(***************************************************************************)
(* Go maps: a function whose domain is the set of keys.                    *)
(***************************************************************************)
EmptyMap == [k \in {} |-> s_empty]

MapPut(m, key, val) ==
    [k \in (DOMAIN m) \cup {key} |-> IF k = key THEN val ELSE m[k]]

(***************************************************************************)
(* The operating system: the content tree and the operation that fails.    *)
(***************************************************************************)
RECURSIVE DirString(_)
DirString(segs) ==
    IF segs = << >> THEN s_content
    ELSE JoinPath(DirString(SubSeq(segs, 1, Len(segs) - 1)), segs[Len(segs)])

FilePath(f) == JoinPath(DirString(f.dir), f.name)

\* os.ReadDir(directory): the entries of the directory.  They are a set:
\* the walk takes them in any order, the order by file name that os.ReadDir
\* returns among them, so what holds here holds for every listing order.
ReadDir(fs, directory) ==
    { [name |-> f.name, isDir |-> FALSE] :
         f \in {g \in fs : DirString(g.dir) = directory} }
    \cup
    { [name |-> x[1].dir[x[2]], isDir |-> TRUE] :
         x \in {y \in fs \X (1..2) :
                   /\ y[2] <= Len(y[1].dir)
                   /\ DirString(SubSeq(y[1].dir, 1, y[2] - 1)) = directory} }

\* The path mapping of parseDirectoryContent.
OutPathOf(path) ==
    LET lower == ToLower(path)
        noRoot == Replace(lower, s_content_slash, s_empty, 1)
        noSpace == Replace(noRoot, s_space, s_underscore, -1)
        html == Replace(noSpace, s_dot_md, s_dot_html, 1)
    IN s_public_slash \o html

\* The directories of a tree, as paths (the root included).
DirsOf(fs) ==
    { DirString(SubSeq(x[1].dir, 1, x[2])) :
         x \in {y \in fs \X (0..2) : y[2] <= Len(y[1].dir)} } \cup {s_content}

\* At most one operation of the run fails: op names the call, arg its path.
\* ("Create" is os.Create, in copyFile, renderMd and renderHtml; "Templates"
\* is template.ParseFiles in main; "NewPage" is the read of a partial.)
NoFault == [op |-> "none", arg |-> s_empty]

FaultsOf(fs) ==
    {NoFault}
    \cup { [op |-> "ReadDir", arg |-> d] : d \in DirsOf(fs) }
    \cup { [op |-> "MkdirAll", arg |-> OutPathOf(d)] : d \in DirsOf(fs) \ {s_content} }
    \cup { [op |-> "ReadFile", arg |-> FilePath(f)] : f \in fs }
    \cup { [op |-> "Open", arg |-> FilePath(f)] :
              f \in {g \in fs : Ext(g.name) \notin {s_dot_md, s_dot_html}} }
    \cup { [op |-> "Create", arg |-> OutPathOf(FilePath(f))] : f \in fs }
    \cup { [op |-> "Execute", arg |-> OutPathOf(FilePath(f))] : f \in fs }
    \cup { [op |-> "ParseFiles", arg |-> FilePath(f)] :
              f \in {g \in fs : Ext(g.name) = s_dot_html} }
    \cup { [op |-> "NewPage", arg |-> s_empty], [op |-> "Templates", arg |-> s_empty] }

VARIABLES
    files,        \* the content tree
    fault,        \* the operation that fails in this run, if any
    pc,           \* where main is: start, walk, resolve, render, done, fatal
    stack,        \* the calls of parseDirectoryContent, the innermost first
    pages,        \* the registry: var pages map[string]*page
    out,          \* the output tree: what was written at each output path
    resolveTodo,  \* the registry keys the backlink loop has yet to visit
    cur,          \* the key of the page whose links are being resolved
    curLinks,     \* the links of that page yet to be processed
    renderTodo,   \* the registry keys the render loop has yet to visit
    rendered,     \* the registry keys Render was called on
    insLog,       \* per output path, the source paths of the pages stored, in order
    unresolved,   \* the links logged as "unable to find page", with their page
    nBl,          \* the number of writes to a Backlinks map so far
    lastRes,      \* how the last link was resolved
    fatalCause    \* the call whose failure ended the run by log.Fatal

vars == <<files, fault, pc, stack, pages, out, resolveTodo, cur, curLinks,
          renderTodo, rendered, insLog, unresolved, nBl, lastRes, fatalCause>>

Fails(op, arg) == fault = [op |-> op, arg |-> arg]

(***************************************************************************)
(* type page, NewPage, markdown2html, reHref                               *)
(***************************************************************************)
\* NewPage: Type, Content and Footer are the zero value, Backlinks is an
\* empty map.  (Navigation and StaticImports are the same for every page.)
NewPage(path, outPath, name) ==
    [Path |-> path, OutPath |-> outPath, Name |-> name, Type |-> "",
     Backlinks |-> EmptyMap, Content |-> << >>, Footer |-> << >>]

\* markdown2html: the anchors of the rendered HTML, one per link of the
\* text; html.HrefTargetBlank marks the links that are not site-relative.
markdown2html(md) ==
    [i \in 1..Len(md) |->
        [href |-> md[i], blank |-> ~(Len(md[i]) > 0 /\ md[i][1] = "/")]]

IsInternal(a) == Len(a.href) > 0 /\ a.href[1] = "/"

\* reHref.FindAllStringSubmatch(content, -1), the first group of each match:
\* the href of every anchor whose href starts with a slash, in order.
FindAllHref(content) ==
    LET m == SelectSeq(content, IsInternal)
    IN [i \in 1..Len(m) |-> m[i].href]

(***************************************************************************)
(* The body of main's loop over the links of a page                        *)
(***************************************************************************)
NoTarget == [via |-> "none", key |-> s_empty]

\* Variant of LookupTarget: no second lookup.
LookupTargetExactOnly(pgs, link) ==
    IF (s_public \o link) \in DOMAIN pgs
    THEN [via |-> "exact", key |-> s_public \o link]
    ELSE NoTarget

\* The two lookups of a link: pages["public"+link], and when there is no
\* such page pages["public"+link+"/index.html"].
LookupTarget(pgs, link) ==
    IF (s_public \o link) \in DOMAIN pgs
    THEN [via |-> "exact", key |-> s_public \o link]
    ELSE IF (s_public \o link \o s_slash_index_html) \in DOMAIN pgs
    THEN [via |-> "index", key |-> s_public \o link \o s_slash_index_html]
    ELSE NoTarget

\* Variant of BacklinkKey: the output root is kept.
BacklinkKeyWithRoot(p) == p.OutPath

\* strings.Replace(page.OutPath, "public", "", 1)
BacklinkKey(p) == Replace(p.OutPath, s_public, s_empty, 1)

\* Variant of AddBacklink: the map is replaced, not added to.
SetOnlyBacklink(backlinks, key, name) == [k \in {key} |-> name]

\* targetPage.Backlinks[key] = name
AddBacklink(backlinks, key, name) == MapPut(backlinks, key, name)

\* The body of the loop over the links of page src, for one link.
ResolveOne(pgs, src, link) ==
    LET t == LookupTarget(pgs, link)
    IN IF t.via = "none"
       THEN pgs
       ELSE [pgs EXCEPT ![t.key].Backlinks =
                AddBacklink(@, BacklinkKey(pgs[src]), pgs[src].Name)]

\* Variant of AfterUnresolved: log.Fatalf.
AfterUnresolvedFatal == "fatal"

\* What the run does after a link that no page was found for: it logs
\* and goes on with the loop.
AfterUnresolved == "resolve"

(***************************************************************************)
(* parseDirectoryContent                                                   *)
(***************************************************************************)
\* The name handed to the walk of a subdirectory.
ChildName(directory, parent) ==
    IF directory = s_content THEN parent ELSE directory

\* The name of the page of a file.
PageName(name, parent) ==
    LET n == TrimSuffix(name, Ext(name))
    IN IF n = s_index THEN parent ELSE n

\* The switch on the extension: the Type of the page.
TypeOfExt(ext) ==
    IF ext = s_dot_html THEN "HTML" ELSE IF ext = s_dot_md THEN "MD" ELSE ""

\* The page of a file, as it is when it is stored in the registry.
CompilePage(path, name, parent, md) ==
    LET p == NewPage(path, OutPathOf(path), PageName(name, parent))
        ty == TypeOfExt(Ext(name))
    IN [p EXCEPT !.Type = ty,
                 !.Content = IF ty = "MD" THEN markdown2html(md) ELSE << >>]

\* The key a page is stored under.
RegistryKey(outPath) == Replace(outPath, s_slash_content, s_empty, 1)

\* Variants of InsertPage.  Eager: the links of a page are resolved as soon
\* as the page is stored (a single-pass generator).  PagesOnly: a file that is
\* only copied is not stored.
RECURSIVE ResolveAll(_, _, _)
ResolveAll(pgs, src, links) ==
    IF links = << >> THEN pgs
    ELSE ResolveAll(ResolveOne(pgs, src, Head(links)), src, Tail(links))

InsertPageEager(pgs, p) ==
    LET key == RegistryKey(p.OutPath)
    IN ResolveAll(MapPut(pgs, key, p), key, FindAllHref(p.Content))

InsertPagePagesOnly(pgs, p) ==
    IF p.Type = "" THEN pgs ELSE MapPut(pgs, RegistryKey(p.OutPath), p)

\* pages[key] = &p
InsertPage(pgs, p) == MapPut(pgs, RegistryKey(p.OutPath), p)

Dir == [kind |-> "dir", from |-> s_empty, footer |-> << >>]

Append1(log, key, path) ==
    MapPut(log, key, IF key \in DOMAIN log THEN Append(log[key], path) ELSE <<path>>)

Top == stack[1]

Continue(e) == <<[Top EXCEPT !.todo = @ \ {e}]>> \o Tail(stack)

Init ==
    /\ files \in {fs \in SUBSET ContentFiles : Cardinality(fs) <= MaxFiles}
    /\ fault \in FaultsOf(files)
    /\ pc = "start"
    /\ stack = << >>
    /\ pages = EmptyMap
    /\ out = EmptyMap
    /\ resolveTodo = {}
    /\ cur = s_empty
    /\ curLinks = << >>
    /\ renderTodo = {}
    /\ rendered = {}
    /\ insLog = EmptyMap
    /\ unresolved = {}
    /\ nBl = 0
    /\ lastRes = [src |-> s_empty, link |-> s_empty, via |-> "none", target |-> s_empty]
    /\ fatalCause = "none"

\* main, up to the first listing of parseDirectoryContent("content", "Oliver").
Main ==
    /\ pc = "start"
    /\ IF Fails("Templates", s_empty)
       THEN /\ pc' = "done"
            /\ UNCHANGED <<stack, out, fatalCause>>
       ELSE IF Fails("ReadDir", s_content)
       THEN /\ pc' = "fatal"
            /\ fatalCause' = "ReadDir"
            /\ UNCHANGED <<stack, out>>
       ELSE /\ pc' = "walk"
            /\ stack' = <<[directory |-> s_content, parent |-> s_Oliver,
                           todo |-> ReadDir(files, s_content)]>>
            /\ out' = MapPut(out, s_public, Dir)
            /\ UNCHANGED fatalCause
    /\ UNCHANGED <<files, fault, pages, resolveTodo, cur, curLinks, renderTodo,
                   rendered, insLog, unresolved, nBl, lastRes>>

\* One iteration of the loop over the entries, for a directory: MkdirAll,
\* then the recursive call up to its listing.
WalkDirOn(e) ==
    LET path == JoinPath(Top.directory, e.name)
        outPath == OutPathOf(path)
    IN
    /\ pc = "walk" /\ stack # << >>
    /\ e \in Top.todo /\ e.isDir
    /\ IF Fails("MkdirAll", outPath)
       THEN /\ stack' = Continue(e)
            /\ UNCHANGED <<pc, out, fatalCause>>
       ELSE IF Fails("ReadDir", path)
       THEN /\ pc' = "fatal"
            /\ fatalCause' = "ReadDir"
            /\ out' = MapPut(out, outPath, Dir)
            /\ UNCHANGED stack
       ELSE /\ stack' = <<[directory |-> path,
                           parent |-> ChildName(Top.directory, Top.parent),
                           todo |-> ReadDir(files, path)]>> \o Continue(e)
            /\ out' = MapPut(out, outPath, Dir)
            /\ UNCHANGED <<pc, fatalCause>>
    /\ UNCHANGED <<files, fault, pages, resolveTodo, cur, curLinks, renderTodo,
                   rendered, insLog, unresolved, nBl, lastRes>>

\* One iteration of the loop over the entries, for a file.
WalkFileOn(e) ==
    LET path == JoinPath(Top.directory, e.name)
        outPath == OutPathOf(path)
        f == CHOOSE g \in files : FilePath(g) = path
        p == CompilePage(path, e.name, Top.parent, f.links)
    IN
    /\ pc = "walk" /\ stack # << >>
    /\ e \in Top.todo /\ ~e.isDir
    /\ IF Fails("ReadFile", path) \/ Fails("NewPage", s_empty)
       THEN /\ stack' = Continue(e)
            /\ UNCHANGED <<pc, pages, out, insLog, fatalCause>>
       ELSE IF p.Type = "" /\ (Fails("Open", path) \/ Fails("Create", outPath))
       THEN \* copyFile: log.Fatal
            /\ pc' = "fatal"
            /\ fatalCause' = "copyFile"
            /\ UNCHANGED <<stack, pages, out, insLog>>
       ELSE /\ stack' = Continue(e)
            /\ out' = IF p.Type = ""
                      THEN MapPut(out, outPath,
                                  [kind |-> "copy", from |-> path, footer |-> << >>])
                      ELSE out
            /\ pages' = InsertPage(pages, p)
            /\ insLog' = Append1(insLog, p.OutPath, path)
            /\ UNCHANGED <<pc, fatalCause>>
    /\ UNCHANGED <<files, fault, resolveTodo, cur, curLinks, renderTodo,
                   rendered, unresolved, nBl, lastRes>>

\* The loop over the entries is over: parseDirectoryContent returns, and
\* when it returns to main the loop over the registry starts.
WalkReturn ==
    /\ pc = "walk" /\ stack # << >>
    /\ Top.todo = {}
    /\ stack' = Tail(stack)
    /\ IF Tail(stack) = << >>
       THEN /\ pc' = "resolve"
            /\ resolveTodo' = DOMAIN pages
       ELSE UNCHANGED <<pc, resolveTodo>>
    /\ UNCHANGED <<files, fault, pages, out, cur, curLinks, renderTodo,
                   rendered, insLog, unresolved, nBl, lastRes, fatalCause>>

(***************************************************************************)
(* main: the loop that resolves the links into backlinks                   *)
(***************************************************************************)
\* The outer loop takes the next page of the registry, in the order of
\* Go's map iteration (any order); the links of a page with a Type are
\* extracted from its Content.
ResolvePageOn(k) ==
    /\ pc = "resolve" /\ curLinks = << >>
    /\ k \in resolveTodo
    /\ resolveTodo' = resolveTodo \ {k}
    /\ cur' = k
    /\ curLinks' = IF pages[k].Type # "" THEN FindAllHref(pages[k].Content) ELSE << >>
    /\ UNCHANGED <<files, fault, pc, stack, pages, out, renderTodo, rendered,
                   insLog, unresolved, nBl, lastRes, fatalCause>>

\* The inner loop processes the next link of the page.
ResolveLink ==
    /\ pc = "resolve" /\ curLinks # << >>
    /\ LET link == Head(curLinks)
           t == LookupTarget(pages, link)
       IN /\ pages' = ResolveOne(pages, cur, link)
          /\ lastRes' = [src |-> cur, link |-> link, via |-> t.via, target |-> t.key]
          /\ nBl' = IF t.via = "none" THEN nBl ELSE nBl + 1
          /\ unresolved' = IF t.via = "none"
                           THEN unresolved \cup {[src |-> cur, link |-> link]}
                           ELSE unresolved
          /\ pc' = IF t.via = "none" THEN AfterUnresolved ELSE pc
    /\ curLinks' = Tail(curLinks)
    /\ UNCHANGED <<files, fault, stack, out, resolveTodo, cur, renderTodo,
                   rendered, insLog, fatalCause>>

\* Both loops are over: the loop that renders starts.
ResolveDone ==
    /\ pc = "resolve" /\ curLinks = << >> /\ resolveTodo = {}
    /\ pc' = "render"
    /\ cur' = s_empty
    /\ renderTodo' = DOMAIN pages
    /\ UNCHANGED <<files, fault, stack, pages, out, resolveTodo, curLinks,
                   rendered, insLog, unresolved, nBl, lastRes, fatalCause>>

(***************************************************************************)
(* main: the loop that renders; page.Render, renderMd, renderHtml          *)
(***************************************************************************)
\* footerTemplate.Execute(&result, p): the footer shows the page's backlinks.
FooterOf(p) == <<p.Backlinks>>

\* What renderMd or renderHtml leaves at the page's output path; the output
\* tree is unchanged when the source template cannot be parsed or the file
\* cannot be created, and the file is left empty when Execute fails.
Written(o, p) ==
    IF p.Type = "" THEN o
    ELSE IF p.Type = "HTML" /\ Fails("ParseFiles", p.Path) THEN o
    ELSE IF Fails("Create", p.OutPath) THEN o
    ELSE IF Fails("Execute", p.OutPath)
    THEN MapPut(o, p.OutPath, [kind |-> "empty", from |-> p.Path, footer |-> << >>])
    ELSE MapPut(o, p.OutPath, [kind |-> "page", from |-> p.Path, footer |-> p.Footer])

\* page.Render() on the next page of the registry, in any order.
RenderOn(k) ==
    /\ pc = "render"
    /\ k \in renderTodo
    /\ renderTodo' = renderTodo \ {k}
    /\ rendered' = rendered \cup {k}
    /\ pages' = [pages EXCEPT ![k].Footer = FooterOf(pages[k])]
    /\ out' = Written(out, [pages[k] EXCEPT !.Footer = FooterOf(pages[k])])
    /\ UNCHANGED <<files, fault, pc, stack, resolveTodo, cur, curLinks,
                   insLog, unresolved, nBl, lastRes, fatalCause>>

\* main returns.
RenderDone ==
    /\ pc = "render" /\ renderTodo = {}
    /\ pc' = "done"
    /\ UNCHANGED <<files, fault, stack, pages, out, resolveTodo, cur, curLinks,
                   renderTodo, rendered, insLog, unresolved, nBl, lastRes, fatalCause>>

\* The entries the innermost loop of the walk has yet to take.
TopTodo == IF stack = << >> THEN {} ELSE Top.todo

WalkDir == \E e \in TopTodo : WalkDirOn(e)

WalkFile == \E e \in TopTodo : WalkFileOn(e)

ResolvePage == \E k \in resolveTodo : ResolvePageOn(k)

Render == \E k \in renderTodo : RenderOn(k)

Next ==
    \/ Main
    \/ WalkDir
    \/ WalkFile
    \/ WalkReturn
    \/ ResolvePage
    \/ ResolveLink
    \/ ResolveDone
    \/ Render
    \/ RenderDone

Spec == Init /\ [][Next]_vars

(***************************************************************************)
(* Properties                                                              *)
(***************************************************************************)
\* The part of an output path after the output root "public".
AfterPublic(outPath) == SubSeq(outPath, Len(s_public) + 1, Len(outPath))

NoBacklinkWritten ==
    /\ nBl = 0
    /\ \A k \in DOMAIN pages : DOMAIN pages[k].Backlinks = {}

BacklinksChange ==
    \/ nBl' # nBl
    \/ \E k \in DOMAIN pages \cap DOMAIN pages' :
          pages'[k].Backlinks # pages[k].Backlinks

\* C1: the three passes are strictly ordered.  A step that stores a page in
\* the registry leaves every Backlinks map empty and no page rendered; a
\* step that writes a Backlinks map happens when parseDirectoryContent has
\* returned, and leaves no page rendered; and from the start of the
\* resolution on no page is stored in the registry.
C1_PassesOrdered ==
    [][ /\ (insLog' # insLog \/ DOMAIN pages' # DOMAIN pages)
            => (pc = "walk" /\ NoBacklinkWritten' /\ rendered' = {})
        /\ BacklinksChange => (stack = << >> /\ pc = "resolve" /\ rendered' = {})
        /\ rendered' # rendered => (pc = "render" /\ ~BacklinksChange)
      ]_vars

\* A run in which pages were stored, backlinks written and pages rendered.
C1_Witness ==
    /\ pc = "done"
    /\ Cardinality(DOMAIN pages) >= 2
    /\ nBl >= 2
    /\ rendered = DOMAIN pages


\* A path after its last slash, and before it.
LastSlash(path) ==
    CHOOSE i \in 1..Len(path) :
        /\ path[i] = "/"
        /\ \A j \in (i + 1)..Len(path) : path[j] # "/"

BaseName(path) == SubSeq(path, LastSlash(path) + 1, Len(path))

ParentDir(path) == SubSeq(path, 1, LastSlash(path) - 1)

SourceExt(p) == Ext(BaseName(p.Path))

IsPageExt(ext) == ext \in {s_dot_md, s_dot_html}

\* C2 as claimed: no record of an opaque file (a file whose extension is
\* neither .md nor .html) is in the registry.
C2_NoOpaqueInRegistry ==
    \A k \in DOMAIN pages : IsPageExt(SourceExt(pages[k]))

\* C2 as amended: an opaque file that was copied has a record in the
\* registry, under the key of its output path; a record has the empty Type
\* exactly when its source is opaque, and then it has no Content and is the
\* source of no backlink.
C2_OpaqueStoredUntyped ==
    /\ \A o \in DOMAIN out :
          out[o].kind = "copy" => RegistryKey(o) \in DOMAIN pages
    /\ \A k \in DOMAIN pages :
          LET p == pages[k] IN
          /\ p.Type \in {"", "MD", "HTML"}
          /\ p.Type = "" <=> ~IsPageExt(SourceExt(p))
          /\ p.Type = "MD" <=> SourceExt(p) = s_dot_md
          /\ p.Type = ""
               => /\ p.Content = << >>
                  /\ \A t \in DOMAIN pages :
                        AfterPublic(p.OutPath) \notin DOMAIN pages[t].Backlinks

\* An opaque file was copied, is in the registry with the empty Type, was
\* linked to, and the run is over.
C2_Witness ==
    /\ pc = "done"
    /\ \E k \in DOMAIN pages :
          /\ pages[k].Type = ""
          /\ pages[k].OutPath \in DOMAIN out
          /\ out[pages[k].OutPath].kind = "copy"
          /\ DOMAIN pages[k].Backlinks # {}

\* The registry page a link is resolved to, by the two lookups.
ResolvesTo(link, t) ==
    IF (s_public \o link) \in DOMAIN pages
    THEN t = s_public \o link
    ELSE /\ t = s_public \o link \o s_slash_index_html
         /\ t \in DOMAIN pages

\* Page s has, in its compiled body, an internal link that resolves to t.
LinksTo(s, t) ==
    /\ pages[s].Type # ""
    /\ \E i \in 1..Len(pages[s].Content) :
          LET h == pages[s].Content[i].href IN
          /\ Len(h) > 0 /\ h[1] = "/"
          /\ ResolvesTo(h, t)

\* C3: after the resolve pass, the Backlinks map of every registry page T
\* has, for every registry page S with an internal link that resolves to T
\* (S = T included), the entry from S's output path without the root
\* "public" to S's name, and it has no other entry.
C3_BacklinksRecorded ==
    pc \in {"render", "done"} =>
        \A t \in DOMAIN pages :
            /\ \A s \in DOMAIN pages :
                  LinksTo(s, t) =>
                     \E bk \in DOMAIN pages[t].Backlinks :
                        /\ s_public \o bk = pages[s].OutPath
                        /\ pages[t].Backlinks[bk] = pages[s].Name
            /\ \A bk \in DOMAIN pages[t].Backlinks :
                  \E s \in DOMAIN pages :
                     /\ LinksTo(s, t)
                     /\ s_public \o bk = pages[s].OutPath

k_blog_index == s_public \o l_blog \o s_slash_index_html
k_blog_post == s_public \o l_post
k_a_b == s_public \o l_a_b
k_a_b_index == s_public \o l_a_b \o s_slash_index_html
k_blog_sub_index == s_public \o l_blog_sub \o s_slash_index_html
n_post == <<"p", "o", "s", "t">>

\* blog/post.md links to /blog: blog/index.html has the one backlink
\* "/blog/post.html" -> "post", and post.html has none.
C3_Witness ==
    /\ pc = "done"
    /\ DOMAIN pages = {k_blog_index, k_blog_post}
    /\ pages[k_blog_index].Backlinks = [bk \in {l_post} |-> n_post]
    /\ DOMAIN pages[k_blog_post].Backlinks = {}

\* The step that processes the next link of the page being resolved.
LinkStep == pc = "resolve" /\ curLinks # << >> /\ curLinks' = Tail(curLinks)

\* The registry with the backlink of page cur recorded on page t.
Recorded(t) ==
    [pages EXCEPT ![t].Backlinks =
        MapPut(@, AfterPublic(pages[cur].OutPath), pages[cur].Name)]

\* C4: processing link L records the backlink on the page at "public"+L
\* when there is one, and only there; when there is none and there is a
\* page at "public"+L+"/index.html", it records it on that page.
C4_IndexFallback ==
    [][ LinkStep =>
          LET exact == s_public \o Head(curLinks)
              index == s_public \o Head(curLinks) \o s_slash_index_html
          IN /\ exact \in DOMAIN pages => pages' = Recorded(exact)
             /\ (exact \notin DOMAIN pages /\ index \in DOMAIN pages)
                   => pages' = Recorded(index)
      ]_vars

\* "A b.md" links to /a_b.html, which is a page and has an index page too:
\* the backlink is on public/a_b.html alone; and it links to /blog/sub, which
\* is no page: the backlink is on public/blog/sub/index.html.
C4_Witness ==
    /\ pc = "done"
    /\ {k_a_b, k_a_b_index, k_blog_sub_index} \subseteq DOMAIN pages
    /\ l_a_b \in DOMAIN pages[k_a_b].Backlinks
    /\ DOMAIN pages[k_a_b_index].Backlinks = {}
    /\ l_a_b \in DOMAIN pages[k_blog_sub_index].Backlinks


(***************************************************************************)
(* What the registry is at the end of the resolve pass, as a function of   *)
(* the content tree and of the failing operation alone.                    *)
(***************************************************************************)
\* The file is not stored: it cannot be read, NewPage fails, or the output
\* directory of one of the directories above it cannot be made.
Skipped(f) ==
    \/ Fails("ReadFile", FilePath(f))
    \/ Fails("NewPage", s_empty)
    \/ \E i \in 1..Len(f.dir) :
          Fails("MkdirAll", OutPathOf(DirString(SubSeq(f.dir, 1, i))))

Stored == {f \in files : ~Skipped(f)}

KeyOf(f) == RegistryKey(OutPathOf(FilePath(f)))

\* The name the walk of the file's directory is called with.
ParentOf(f) ==
    IF Len(f.dir) <= 1 THEN s_Oliver
    ELSE DirString(SubSeq(f.dir, 1, Len(f.dir) - 1))

PageOf(f) == CompilePage(FilePath(f), f.name, ParentOf(f), f.links)

Compiled ==
    [k \in {KeyOf(f) : f \in Stored} |->
        PageOf(CHOOSE f \in Stored : KeyOf(f) = k)]

\* Whether page s of registry reg links to page t of it.
LinksIn(reg, s, t) ==
    /\ reg[s].Type # ""
    /\ \E i \in 1..Len(reg[s].Content) :
          LET h == reg[s].Content[i].href IN
          /\ Len(h) > 0 /\ h[1] = "/"
          /\ IF (s_public \o h) \in DOMAIN reg
             THEN t = s_public \o h
             ELSE t = s_public \o h \o s_slash_index_html

BacklinksIn(reg, t) ==
    LET srcs == {s \in DOMAIN reg : LinksIn(reg, s, t)}
    IN [bk \in {AfterPublic(reg[s].OutPath) : s \in srcs} |->
          reg[CHOOSE s \in srcs : AfterPublic(reg[s].OutPath) = bk].Name]

Resolved ==
    LET reg == Compiled
    IN [k \in DOMAIN reg |-> [reg[k] EXCEPT !.Backlinks = BacklinksIn(reg, k)]]

NoKeyCollision ==
    \A f, g \in files : KeyOf(f) = KeyOf(g) => f = g

C6_OnlyListingFailureIsFatal ==
    pc = "fatal" => (fatalCause = "ReadDir" /\ fault.op = "ReadDir")

\* C7 as claimed: every page is stored under its output path.
C7_KeyedByOutPath ==
    \A k \in DOMAIN pages : k = pages[k].OutPath

\* C8: a link that neither lookup finds a page for leaves every page as it
\* is, and the loop goes on; and when main returns, both loops over the
\* registry are over and Render was called on every page.
C8_UnresolvedChangesNothing ==
    [][ /\ ( /\ LinkStep
             /\ (s_public \o Head(curLinks)) \notin DOMAIN pages
             /\ (s_public \o Head(curLinks) \o s_slash_index_html) \notin DOMAIN pages )
           => /\ pages' = pages
              /\ pc' = "resolve"
              /\ resolveTodo' = resolveTodo
              /\ out' = out
        /\ (pc' = "done" /\ fault.op # "Templates")
           => /\ resolveTodo' = {} /\ curLinks' = << >>
              /\ rendered' = DOMAIN pages'
      ]_vars

\* blog/post.md links to /blog, /nope and /blog: the second link was logged
\* as not found, the third was resolved after it, and both pages were
\* rendered.
C8_Witness ==
    /\ pc = "done"
    /\ [src |-> k_blog_post, link |-> l_nope] \in unresolved
    /\ lastRes = [src |-> k_blog_post, link |-> l_blog, via |-> "index",
                  target |-> k_blog_index]
    /\ nBl = 2
    /\ rendered = DOMAIN pages
    /\ k_blog_index \in rendered

\* C9 as claimed: the page of an index file in a subdirectory D has the
\* name of D; the page of any other file has the file's name without its
\* extension.
C9_IndexNamedAfterDirectory ==
    \A k \in DOMAIN pages :
        LET p == pages[k]
            base == BaseName(p.Path)
            stem == TrimSuffix(base, Ext(base))
            dir == ParentDir(p.Path)
        IN /\ (stem = s_index /\ dir # s_content) => p.Name = BaseName(dir)
           /\ stem # s_index => p.Name = stem

\* C10 as claimed: when two files map to the same output path, after the
\* compile pass the registry holds exactly one record with that output path,
\* the record of the file processed later, and the collision ends no run.
C10_LastWriterWins ==
    /\ pc \in {"resolve", "render", "done"} =>
          \A o \in DOMAIN insLog :
             Len(insLog[o]) >= 2 =>
                /\ Cardinality({k \in DOMAIN pages : pages[k].OutPath = o}) = 1
                /\ \A k \in DOMAIN pages :
                      pages[k].OutPath = o
                         => pages[k].Path = insLog[o][Len(insLog[o])]
    /\ fault = NoFault => pc # "fatal"

=============================================================================
